---- MODULE Spec2Model ----
(***************************************************************************)
(* Shield text layout and drawing (src/src/shieldtest.js, lines 362-650):  *)
(* the text width estimate, the four shape constraint functions, the       *)
(* layout engine and the four draw operations on a graphics context.       *)
(*                                                                         *)
(* Numbers.  JavaScript numbers are modelled as exact reals of the form    *)
(* a + b*sqrt(r) with a, b, r rational (r >= 0), plus NaN and undefined.   *)
(* That form is closed under every operation the source applies           *)
(* (+ - * / Math.sqrt Math.min Math.round) on the inputs used here.  The   *)
(* rounding error of IEEE-754 doubles is NOT modelled: every result is the *)
(* exact real value.  Operations the model cannot represent (a division of *)
(* a non-zero number by zero, a sum of surds of different radicands) have  *)
(* no matching CASE arm, so TLC stops with an error instead of computing a *)
(* wrong value.                                                            *)
(***************************************************************************)
EXTENDS Integers, Sequences, FiniteSets, TLC

VARIABLES
  Gfx,        \* screen_gfx.js: the pixel ratio and the reference font size
  ShieldDef,  \* shield_defs.js: the banner geometry constants
  ctx,        \* the caller's graphics context
  log,        \* the fillText / strokeText calls the context has received
  calls,      \* calls of the pure functions still to run, with their inputs
  ret         \* the calls that have returned, with their results

vars == <<Gfx, ShieldDef, ctx, log, calls, ret>>

(***************************************************************************)
(* Rationals: [n, d] with d > 0 and gcd(n, d) = 1.                         *)
(***************************************************************************)
Abs(x) == IF x < 0 THEN -x ELSE x

RECURSIVE GCD(_, _)
GCD(a, b) == IF b = 0 THEN a ELSE GCD(b, a % b)

Rat(n, d) ==
  LET g == GCD(Abs(n), Abs(d))
      s == IF d < 0 THEN -1 ELSE 1
  IN  [n |-> s * (n \div g), d |-> Abs(d) \div g]

RZero == [n |-> 0, d |-> 1]

RNeg(p) == [n |-> -p.n, d |-> p.d]

RAdd(p, q) ==
  LET g == GCD(p.d, q.d)
  IN  Rat(p.n * (q.d \div g) + q.n * (p.d \div g), (p.d \div g) * q.d)

RSub(p, q) == RAdd(p, RNeg(q))

RMul(p, q) ==
  LET g1 == GCD(Abs(p.n), q.d)
      g2 == GCD(Abs(q.n), p.d)
  IN  Rat((p.n \div g1) * (q.n \div g2), (p.d \div g2) * (q.d \div g1))

RInv(p) == Rat(p.d, p.n)

RSign(p) == IF p.n > 0 THEN 1 ELSE IF p.n < 0 THEN -1 ELSE 0

RFloor(p) == p.n \div p.d

RECURSIVE ISqrtIn(_, _, _)
ISqrtIn(n, lo, hi) ==
  IF lo >= hi THEN lo
  ELSE LET mid == (lo + hi + 1) \div 2
       IN  IF mid * mid <= n THEN ISqrtIn(n, mid, hi) ELSE ISqrtIn(n, lo, mid - 1)

\* floor(sqrt(n)) for n >= 0
ISqrt(n) == ISqrtIn(n, 0, IF n < 46340 THEN n ELSE 46340)

\* the largest s with s*s dividing n, for n > 0
SquarePart(n) ==
  LET S == {s \in 1..ISqrt(n) : n % (s * s) = 0}
  IN  CHOOSE s \in S : \A t \in S : t <= s

(***************************************************************************)
(* JavaScript values: a number a + b*sqrt(r), NaN, or undefined.           *)
(***************************************************************************)
Num(a, b, r) ==
  IF b = RZero \/ r = RZero
  THEN [k |-> "num", a |-> a, b |-> RZero, r |-> RZero]
  ELSE [k |-> "num", a |-> a, b |-> b, r |-> r]

Q(n, d) == Num(Rat(n, d), RZero, RZero)

I(n) == Q(n, 1)

NaN == [k |-> "nan", a |-> RZero, b |-> RZero, r |-> RZero]

Undefined == [k |-> "undef", a |-> RZero, b |-> RZero, r |-> RZero]

\* isNaN: undefined and null convert to NaN in arithmetic, so every
\* operation below yields NaN unless both operands are numbers
IsNaN(x) == x.k # "num"

IsRational(x) == x.k = "num" /\ x.b = RZero

\* the radicand two operands share
Radicand(x, y) ==
  CASE x.b = RZero -> y.r
    [] y.b = RZero -> x.r
    [] x.r = y.r -> x.r

RAbs(p) == [n |-> Abs(p.n), d |-> p.d]

\* compare p/q (p >= 0, q > 0) with (sqrt(r) + m) / d by their continued
\* fractions, t = floor(sqrt(r)): -1 or 1 (sqrt(r) is irrational)
RECURSIVE CmpSurd(_, _, _, _, _, _)
CmpSurd(p, q, m, d, r, t) ==
  LET ap == p \div q
      as == (t + m) \div d
      m1 == d * as - m
      d1 == (r - m1 * m1) \div d
  IN  CASE ap < as -> -1
        [] ap > as -> 1
        [] ap = as /\ p % q = 0 -> -1
        [] OTHER -> -CmpSurd(q, p % q, m1, d1, r, t)

\* |a| > |b| sqrt(r), for a, b # 0: either |a / b| > sqrt(r) or, the same
\* thing, |b| r / |a| < sqrt(r); the second form keeps the integers small
\* when the denominator of b cancels against r
AbsGreater(a, b, r) ==
  IF GCD(b.d, r.n) > 1
  THEN LET c == RMul(RMul(RAbs(b), r), RInv(RAbs(a)))
       IN  CmpSurd(c.n, c.d, 0, 1, r.n, ISqrt(r.n)) < 0
  ELSE LET c == RMul(RAbs(a), RInv(RAbs(b)))
       IN  CmpSurd(c.n, c.d, 0, 1, r.n, ISqrt(r.n)) > 0

\* sign of a + b*sqrt(r): -1, 0 or 1 (r is a square-free integer > 1)
Sign(x) ==
  LET sa == RSign(x.a)
      sb == RSign(x.b)
  IN  CASE sb = 0 -> sa
        [] sa = 0 -> sb
        [] sa = sb -> sa
        [] OTHER -> IF AbsGreater(x.a, x.b, x.r) THEN sa ELSE sb

Add(x, y) ==
  IF x.k = "num" /\ y.k = "num"
  THEN Num(RAdd(x.a, y.a), RAdd(x.b, y.b), Radicand(x, y))
  ELSE NaN

Sub(x, y) ==
  IF x.k = "num" /\ y.k = "num"
  THEN Num(RSub(x.a, y.a), RSub(x.b, y.b), Radicand(x, y))
  ELSE NaN

Mul(x, y) ==
  IF x.k = "num" /\ y.k = "num"
  THEN LET r == Radicand(x, y)
       IN  Num(RAdd(RMul(x.a, y.a), RMul(RMul(x.b, y.b), r)),
               RAdd(RMul(x.a, y.b), RMul(x.b, y.a)), r)
  ELSE NaN

\* 1 / y for a non-zero number y: 1 / (b sqrt(r)) = sqrt(r) / (b r), and
\* in general conj(y) / (a^2 - b^2 r)
Inv(y) ==
  CASE y.b = RZero -> Num(RInv(y.a), RZero, RZero)
    [] y.b # RZero /\ y.a = RZero -> Num(RZero, RInv(RMul(y.b, y.r)), y.r)
    [] OTHER ->
         LET nrm == RInv(RSub(RMul(y.a, y.a), RMul(RMul(y.b, y.b), y.r)))
         IN  Num(RMul(y.a, nrm), RNeg(RMul(y.b, nrm)), y.r)

\* a + b*sqrt(r) is zero only when a and b are (sqrt(r) is irrational)
IsZero(x) == x.a = RZero /\ x.b = RZero

\* x / y; 0 / 0 is NaN (a non-zero number over zero is outside the model)
Div(x, y) ==
  CASE x.k # "num" \/ y.k # "num" -> NaN
    [] x.k = "num" /\ y.k = "num" /\ ~IsZero(y) -> Mul(x, Inv(y))
    [] x.k = "num" /\ y.k = "num" /\ IsZero(y) /\ IsZero(x) -> NaN

\* Math.sqrt of a rational p/q: (sp / (sq * q')) * sqrt(p' * q') where
\* p = sp^2 p' and q = sq^2 q' with p', q' square-free
Sqrt(x) ==
  CASE x.k # "num" -> NaN
    [] IsRational(x) /\ x.a.n < 0 -> NaN
    [] IsRational(x) /\ x.a.n = 0 -> I(0)
    [] IsRational(x) /\ x.a.n > 0 ->
         LET sp == SquarePart(x.a.n)
             sq == SquarePart(x.a.d)
             p1 == x.a.n \div (sp * sp)
             q1 == x.a.d \div (sq * sq)
         IN  IF p1 * q1 = 1
             THEN Q(sp, sq)
             ELSE Num(RZero, Rat(sp, sq * q1), Rat(p1 * q1, 1))

\* x < y, x <= y, x > y, x >= y, x === y as JavaScript compares numbers:
\* false when either is NaN
Less(x, y) == x.k = "num" /\ y.k = "num" /\ Sign(Sub(x, y)) < 0

LessEq(x, y) == x.k = "num" /\ y.k = "num" /\ Sign(Sub(x, y)) <= 0

Greater(x, y) == Less(y, x)

GreaterEq(x, y) == LessEq(y, x)

Eq(x, y) == x.k = "num" /\ y.k = "num" /\ Sign(Sub(x, y)) = 0

\* Math.min: NaN when either argument is NaN
MathMin(x, y) ==
  IF x.k = "num" /\ y.k = "num"
  THEN (IF Sign(Sub(y, x)) < 0 THEN y ELSE x)
  ELSE NaN

\* the integer k in lo..hi with k <= x < k + 1, by bisection
RECURSIVE FloorIn(_, _, _)
FloorIn(x, lo, hi) ==
  IF lo >= hi THEN lo
  ELSE LET mid == (lo + hi + 1) \div 2
       IN  IF Sign(Add(x, I(-mid))) >= 0 THEN FloorIn(x, mid, hi) ELSE FloorIn(x, lo, mid - 1)

\* floor of a number, as an integer; |x| <= |a| + |b| (floor(sqrt(r)) + 1)
Floor(x) ==
  IF x.b = RZero THEN RFloor(x.a)
  ELSE LET bound == RFloor(RAbs(x.a)) + 1 + (RFloor(RAbs(x.b)) + 1) * (ISqrt(x.r.n) + 1)
       IN  FloorIn(x, -bound, bound)

\* Math.round: floor(x + 1/2); NaN stays NaN
MathRound(x) == IF x.k = "num" THEN I(Floor(Add(x, Q(1, 2)))) ELSE NaN

\* x || 0: the falsy numbers are NaN and 0
OrZero(x) == IF x.k = "num" /\ ~IsZero(x) THEN x ELSE I(0)

\* Number.isInteger
IsInteger(x) == IsRational(x) /\ x.a.d = 1

\* the statements of a function body run in program order before its
\* result is built
After(statements, result) == IF statements = <<>> THEN result ELSE result

(***************************************************************************)
(* The pure functions of the source.                                       *)
(***************************************************************************)
\* Gfx.getPixelRatio()
PXR == Gfx.pixelRatio

\* ellipseScale with a - b for the product a * b
MutEllipseScale(spaceBounds, textBounds) ==
  LET a == spaceBounds.width
      b == spaceBounds.height
      x0 == textBounds.width
      y0 == textBounds.height
  IN  Div(Sub(a, b), Sqrt(Add(Mul(Mul(Mul(a, a), y0), y0), Mul(Mul(Mul(b, b), x0), x0))))

ellipseScale(spaceBounds, textBounds) ==
  LET a == spaceBounds.width
      b == spaceBounds.height
      x0 == textBounds.width
      y0 == textBounds.height
  IN  Div(Mul(a, b), Sqrt(Add(Mul(Mul(Mul(a, a), y0), y0), Mul(Mul(Mul(b, b), x0), x0))))

ellipseTextConstraint(spaceBounds, textBounds) ==
  [scale |-> ellipseScale(spaceBounds, textBounds)]

southHalfellipseTextConstraint(spaceBounds, textBounds) ==
  [scale |-> ellipseScale(spaceBounds,
                          [height |-> Div(textBounds.width, I(2)),
                           width |-> textBounds.height])]

\* rectTextConstraint taking the larger of the two scales
MutRectTextConstraint(spaceBounds, textBounds) ==
  LET scaleHeight == Div(spaceBounds.height, textBounds.height)
      scaleWidth == Div(spaceBounds.width, textBounds.width)
  IN  [scale |-> IF Less(scaleWidth, scaleHeight) THEN scaleHeight ELSE scaleWidth]

rectTextConstraint(spaceBounds, textBounds) ==
  LET scaleHeight == Div(spaceBounds.height, textBounds.height)
      scaleWidth == Div(spaceBounds.width, textBounds.width)
  IN  [scale |-> MathMin(scaleWidth, scaleHeight)]

roundedRectTextConstraint(spaceBounds, textBounds, radius) ==
  rectTextConstraint(
    [width |-> Sub(spaceBounds.width, Mul(radius, Sub(I(2), Sqrt(I(2))))),
     height |-> Sub(spaceBounds.height, Mul(radius, Sub(I(2), Sqrt(I(2)))))],
    textBounds)

\* widthOfChar with "1" left out of the digits
MutWidthOfChar(char) ==
  CASE char \in {"I", "-"} -> Div(I(1), I(3))
    [] char \in {"2", "3", "4", "5", "6", "7", "8", "9", "0"} -> Div(I(1), Q(11, 4))
    [] char \in {"B", "C", "E", "H", "K", "L", "M", "N", "O", "R"} -> Div(I(1), Q(19, 10))
    [] char = "W" -> Div(I(1), Q(3, 2))
    [] OTHER -> Div(I(1), Q(11, 5))

widthOfChar(char) ==
  CASE char \in {"I", "-"} -> Div(I(1), I(3))
    [] char \in {"1", "2", "3", "4", "5", "6", "7", "8", "9", "0"} -> Div(I(1), Q(11, 4))
    [] char \in {"B", "C", "E", "H", "K", "L", "M", "N", "O", "R"} -> Div(I(1), Q(19, 10))
    [] char = "W" -> Div(I(1), Q(3, 2))
    [] OTHER -> Div(I(1), Q(11, 5))

\* the loop of widthOfText: for (var i in text) len += widthOfChar(text[i])
RECURSIVE SumChars(_, _, _)
SumChars(text, i, len) ==
  IF i > Len(text) THEN len
  ELSE SumChars(text, i + 1, Add(len, widthOfChar(text[i])))

widthOfText(text, fontSize) ==
  LET len0 == Add(I(0), Div(Mul(I(Len(text) - 1), I(1)), I(12)))
  IN  Mul(fontSize, SumChars(text, 1, len0))

emHeightForFontSize(fontSize) == Div(Mul(fontSize, I(3)), I(4))

\* a call of a text constraint function passed as data; the rounded
\* rectangle is passed as a closure over its radius
Apply(textLayoutFunc, spaceBounds, textBounds) ==
  CASE textLayoutFunc.fn = "rectTextConstraint" ->
         rectTextConstraint(spaceBounds, textBounds)
    [] textLayoutFunc.fn = "ellipseTextConstraint" ->
         ellipseTextConstraint(spaceBounds, textBounds)
    [] textLayoutFunc.fn = "southHalfellipseTextConstraint" ->
         southHalfellipseTextConstraint(spaceBounds, textBounds)
    [] textLayoutFunc.fn = "roundedRectTextConstraint" ->
         roundedRectTextConstraint(spaceBounds, textBounds, textLayoutFunc.radius)

Fn(name) == [fn |-> name, radius |-> Undefined]

\* the last statements of layoutShieldText without Math.round
MutBaselineShieldText(padTop, availHeight, xBaseline, fontSize, textHeight) ==
  [xBaseline |-> xBaseline,
   yBaseline |-> Add(Add(padTop, Div(Sub(availHeight, textHeight), I(2))), textHeight),
   fontPx |-> fontSize]

\* layoutShieldText is one straight line of assignments.  It is written
\* here as four operators, last part first, each taking the variables
\* assigned before its part as parameters: layoutShieldText computes the
\* paddings and the ceiling, MeasureShieldText the text and available
\* sizes, FitShieldText the font size, PlaceShieldText and
\* BaselineShieldText the text height, the baseline and the returned object.
BaselineShieldText(padTop, availHeight, xBaseline, fontSize, textHeight) ==
  [xBaseline |-> xBaseline,
   yBaseline |-> MathRound(Add(Add(padTop, Div(Sub(availHeight, textHeight), I(2))),
                               textHeight)),
   fontPx |-> fontSize]

PlaceShieldText(padTop, availHeight, xBaseline, fontSize) ==
  After(<<padTop, availHeight, xBaseline, fontSize>>,
        BaselineShieldText(padTop, availHeight, xBaseline, fontSize,
                           emHeightForFontSize(fontSize)))

\* the font size never grown beyond the reference size: the scale capped at 1
MutFitShieldText(textLayoutFunc, padTop, maxFont, textWidth, textHeight, availHeight, availWidth, xBaseline) ==
  PlaceShieldText(padTop, availHeight, xBaseline,
                  MathMin(maxFont,
                          Mul(Gfx.fontSizeThreshold,
                              MathMin(I(1),
                                      Apply(textLayoutFunc,
                                            [height |-> availHeight, width |-> availWidth],
                                            [height |-> textHeight,
                                             width |-> textWidth]).scale))))

\* layoutShieldText, from the text constraint on: the statements after
\* xBaseline, with the values of the variables assigned before them
FitShieldText(textLayoutFunc, padTop, maxFont, textWidth, textHeight, availHeight, availWidth, xBaseline) ==
  PlaceShieldText(padTop, availHeight, xBaseline,
                  MathMin(maxFont,
                          Mul(Gfx.fontSizeThreshold,
                              Apply(textLayoutFunc,
                                    [height |-> availHeight, width |-> availWidth],
                                    [height |-> textHeight, width |-> textWidth]).scale)))

\* layoutShieldText, from the measuring of the text on: the statements
\* after fontSize is set, with the values of the variables assigned before
MeasureShieldText(text, bounds, textLayoutFunc, padTop, padBot, padLeft, padRight, maxFont, fontSize) ==
  FitShieldText(textLayoutFunc, padTop, maxFont,
                widthOfText(text, fontSize), emHeightForFontSize(fontSize),
                Sub(Sub(bounds.height, padTop), padBot),
                Sub(Sub(bounds.width, padLeft), padRight),
                Add(padLeft, Div(Sub(Sub(bounds.width, padLeft), padRight), I(2))))

layoutShieldText(text, padding, bounds, textLayoutFunc, maxFontSize) ==
  MeasureShieldText(text, bounds, textLayoutFunc,
                    OrZero(Mul(padding.top, PXR)), OrZero(Mul(padding.bottom, PXR)),
                    OrZero(Mul(padding.left, PXR)), OrZero(Mul(padding.right, PXR)),
                    Mul(maxFontSize, PXR), Gfx.fontSizeThreshold)

\* the padding object {}
NoPadding == [top |-> Undefined, bottom |-> Undefined, left |-> Undefined, right |-> Undefined]

defaultDefForLayout ==
  [padding |-> [top |-> I(0), bottom |-> I(0), left |-> I(0), right |-> I(0)],
   textLayoutConstraint |-> Undefined,
   maxFontSize |-> Undefined]

Null == [k |-> "null", a |-> RZero, b |-> RZero, r |-> RZero]

\* layoutShieldTextFromDef taking def.maxFontSize as it is
MutLayoutShieldTextFromDef(text, def, bounds) ==
  LET def1 == IF def = Null THEN defaultDefForLayout ELSE def
      padding == IF def1.padding = Undefined THEN NoPadding ELSE def1.padding
      textLayoutFunc == IF def1.textLayoutConstraint # Undefined
                        THEN def1.textLayoutConstraint
                        ELSE Fn("rectTextConstraint")
      maxFontSize == IF def1.maxFontSize # Undefined
                     THEN def1.maxFontSize
                     ELSE I(14)
  IN  layoutShieldText(text, padding, bounds, textLayoutFunc, maxFontSize)

\* def is Null or a record whose absent properties are Undefined
layoutShieldTextFromDef(text, def, bounds) ==
  LET def1 == IF def = Null THEN defaultDefForLayout ELSE def
      padding == IF def1.padding = Undefined THEN NoPadding ELSE def1.padding
      textLayoutFunc == IF def1.textLayoutConstraint # Undefined
                        THEN def1.textLayoutConstraint
                        ELSE Fn("rectTextConstraint")
      maxFontSize == IF def1.maxFontSize # Undefined
                     THEN MathMin(I(14), def1.maxFontSize)
                     ELSE I(14)
  IN  layoutShieldText(text, padding, bounds, textLayoutFunc, maxFontSize)

(***************************************************************************)
(* The pure functions as calls: Init draws the calls and their inputs,     *)
(* one action per function runs the call at the head of the queue.         *)
(***************************************************************************)
GfxEnvs ==
  {[pixelRatio |-> I(1), fontSizeThreshold |-> I(12)],
   [pixelRatio |-> I(2), fontSizeThreshold |-> I(12)],
   [pixelRatio |-> I(2), fontSizeThreshold |-> I(24)]}

\* the pure functions read none of the banner constants
InitPure ==
  /\ Gfx \in GfxEnvs
  /\ ShieldDef \in {[bannerSizeH |-> I(9), bannerPadding |-> I(1), topPadding |-> I(1)]}

Str(s) == [k |-> "str", s |-> s]

Color == [backgroundFill |-> Str("Color.backgroundFill")]

\* a fresh 2D context on a canvas of the given width
NewContext(width) ==
  [canvas |-> [width |-> width],
   fillStyle |-> Str("#000000"),
   strokeStyle |-> Str("#000000"),
   shadowColor |-> Str("rgba(0, 0, 0, 0)"),
   shadowBlur |-> I(0),
   lineWidth |-> I(1),
   font |-> Str("10px sans-serif"),
   textAlign |-> "start",
   textBaseline |-> "alphabetic"]

MaxTextLen == 3

MaxDim == 3

MaxRadius == 3

Digits == {"1", "2"}

RECURSIVE DigitTexts(_)
DigitTexts(n) ==
  IF n = 0 THEN {<<>>}
  ELSE {Append(t, c) : t \in DigitTexts(n - 1), c \in Digits}

Repeat(c, n) == [i \in 1..n |-> c]

LayoutTexts == {<<>>, <<"1">>, <<"9", "5">>, <<"W", "W">>}

Paddings ==
  {NoPadding,
   [top |-> I(2), bottom |-> I(2), left |-> I(2), right |-> I(2)],
   [top |-> I(1), bottom |-> I(3), left |-> Undefined, right |-> I(5)]}

LayoutFuncs ==
  {Fn("rectTextConstraint"), Fn("ellipseTextConstraint"),
   Fn("southHalfellipseTextConstraint"),
   [fn |-> "roundedRectTextConstraint", radius |-> I(2)]}

LayoutBounds ==
  {[width |-> I(w), height |-> I(h)] : w \in {0, 10, 20, 40}, h \in {0, 10, 20}}

MaxFontSizes == {I(8), I(14), I(20)}

Defs ==
  {Null} \cup
  [padding : {Undefined} \cup Paddings,
   textLayoutConstraint : {Undefined} \cup LayoutFuncs,
   maxFontSize : {Undefined} \cup MaxFontSizes]

LayoutCalls ==
  [fn : {"layoutShieldText"}, text : LayoutTexts, padding : Paddings,
   bounds : LayoutBounds, textLayoutFunc : LayoutFuncs, maxFontSize : MaxFontSizes]
  \cup
  [fn : {"layoutShieldTextFromDef"}, text : LayoutTexts, def : Defs,
   bounds : LayoutBounds]

Dims == {[width |-> I(w), height |-> I(h)] : w \in 0..MaxDim, h \in 0..MaxDim}

TextDims == {[width |-> I(w), height |-> I(h)] : w \in 1..MaxDim, h \in 1..MaxDim}

ConstraintCalls ==
  [fn : {"rectTextConstraint", "ellipseTextConstraint",
         "southHalfellipseTextConstraint"},
   spaceBounds : Dims, textBounds : TextDims, radius : {Undefined}]
  \cup
  [fn : {"roundedRectTextConstraint"},
   spaceBounds : Dims, textBounds : TextDims, radius : {I(r) : r \in 0..MaxRadius}]

FontSizes == {I(12), Q(7, 2)}

WidthLayoutBounds == [width |-> I(20), height |-> I(20)]

\* two calls that differ in the text only: a digit string and a second
\* string of the same length, of digits or of "W"s
WidthCallPairs ==
  UNION {
    {<<[fn |-> "widthOfText", text |-> s, fontSize |-> f],
       [fn |-> "widthOfText", text |-> t, fontSize |-> f]>> :
       s \in DigitTexts(n), t \in DigitTexts(n) \cup {Repeat("W", n)},
       f \in FontSizes}
    \cup
    {<<[fn |-> "layoutShieldText", text |-> s, padding |-> p,
        bounds |-> WidthLayoutBounds,
        textLayoutFunc |-> Fn("rectTextConstraint"), maxFontSize |-> I(14)],
       [fn |-> "layoutShieldText", text |-> t, padding |-> p,
        bounds |-> WidthLayoutBounds,
        textLayoutFunc |-> Fn("rectTextConstraint"), maxFontSize |-> I(14)]>> :
       s \in DigitTexts(n), t \in DigitTexts(n) \cup {Repeat("W", n)},
       p \in Paddings}
    : n \in 0..MaxTextLen}

InitEnv ==
  /\ InitPure
  /\ ctx = NewContext(I(1))
  /\ log = <<>>
  /\ ret = <<>>

InitLayout == InitEnv /\ \E c \in LayoutCalls : calls = <<c>>

InitConstraint == InitEnv /\ \E c \in ConstraintCalls : calls = <<c>>

InitWidth == InitEnv /\ calls \in WidthCallPairs

\* the head call returns val
Return(val) ==
  /\ ret' = Append(ret, [call |-> Head(calls), val |-> val])
  /\ calls' = Tail(calls)
  /\ UNCHANGED <<Gfx, ShieldDef, ctx, log>>

Calling(fn) == calls # <<>> /\ Head(calls).fn = fn

WidthOfText ==
  /\ Calling("widthOfText")
  /\ Return(widthOfText(Head(calls).text, Head(calls).fontSize))

RectTextConstraint ==
  /\ Calling("rectTextConstraint")
  /\ Return(rectTextConstraint(Head(calls).spaceBounds, Head(calls).textBounds))

RoundedRectTextConstraint ==
  /\ Calling("roundedRectTextConstraint")
  /\ Return(roundedRectTextConstraint(Head(calls).spaceBounds, Head(calls).textBounds,
                                      Head(calls).radius))

EllipseTextConstraint ==
  /\ Calling("ellipseTextConstraint")
  /\ Return(ellipseTextConstraint(Head(calls).spaceBounds, Head(calls).textBounds))

SouthHalfellipseTextConstraint ==
  /\ Calling("southHalfellipseTextConstraint")
  /\ Return(southHalfellipseTextConstraint(Head(calls).spaceBounds,
                                           Head(calls).textBounds))

LayoutShieldText ==
  /\ Calling("layoutShieldText")
  /\ Return(layoutShieldText(Head(calls).text, Head(calls).padding, Head(calls).bounds,
                             Head(calls).textLayoutFunc, Head(calls).maxFontSize))

LayoutShieldTextFromDef ==
  /\ Calling("layoutShieldTextFromDef")
  /\ Return(layoutShieldTextFromDef(Head(calls).text, Head(calls).def,
                                    Head(calls).bounds))

NextLayout == LayoutShieldText \/ LayoutShieldTextFromDef

NextConstraint ==
  \/ RectTextConstraint
  \/ RoundedRectTextConstraint
  \/ EllipseTextConstraint
  \/ SouthHalfellipseTextConstraint

NextWidth == WidthOfText \/ LayoutShieldText

SpecLayout == InitLayout /\ [][NextLayout]_vars

SpecConstraint == InitConstraint /\ [][NextConstraint]_vars

SpecWidth == InitWidth /\ [][NextWidth]_vars

(***************************************************************************)
(* Properties of the layout functions.                                     *)
(***************************************************************************)
\* the calls of fn that have returned
Returned(fn) == {i \in DOMAIN ret : ret[i].call.fn = fn}

\* a padding of a call, scaled by the pixel ratio
PadPx(p) == OrZero(Mul(p, PXR))

AvailWidth(c) == Sub(Sub(c.bounds.width, PadPx(c.padding.left)), PadPx(c.padding.right))

AvailHeight(c) == Sub(Sub(c.bounds.height, PadPx(c.padding.top)), PadPx(c.padding.bottom))

Positive(x) == Greater(x, I(0))

\* the scale the constraint function of a layoutShieldText call returns for
\* the text bounds estimated at the reference font size
ScaleOf(c) ==
  Apply(c.textLayoutFunc,
        [height |-> AvailHeight(c), width |-> AvailWidth(c)],
        [height |-> emHeightForFontSize(Gfx.fontSizeThreshold),
         width |-> widthOfText(c.text, Gfx.fontSizeThreshold)]).scale

IsRectCall(c) ==
  /\ c.textLayoutFunc.fn = "rectTextConstraint"
  /\ c.text # <<>>
  /\ Positive(AvailWidth(c))
  /\ Positive(AvailHeight(c))

Ceiling(def) ==
  Mul(IF def = Null THEN I(14)
      ELSE IF def.maxFontSize = Undefined THEN I(14)
      ELSE MathMin(I(14), def.maxFontSize),
      PXR)

MaxFont(c) == Mul(c.maxFontSize, PXR)

FitsUnscaled(c) == GreaterEq(ScaleOf(c), I(1))

\* C3 as stated: for text that already fits unscaled (scale >= 1) the fontPx
\* of layoutShieldText equals min(maxFontSize * PXR, reference font size).
C3_NeverGrows ==
  \A i \in Returned("layoutShieldText") :
    FitsUnscaled(ret[i].call) =>
      Eq(ret[i].val.fontPx, MathMin(MaxFont(ret[i].call), Gfx.fontSizeThreshold))

\* C3: for text that already fits unscaled (scale >= 1) the fontPx of
\* layoutShieldText equals min(maxFontSize * PXR, reference * scale): it is
\* at least min(maxFontSize * PXR, reference), and equal to it exactly when
\* the scale is 1 or the ceiling is at most the reference size.
C3_GrowsToCeiling ==
  \A i \in Returned("layoutShieldText") :
    FitsUnscaled(ret[i].call) =>
      /\ Eq(ret[i].val.fontPx,
            MathMin(MaxFont(ret[i].call),
                    Mul(Gfx.fontSizeThreshold, ScaleOf(ret[i].call))))
      /\ GreaterEq(ret[i].val.fontPx,
                   MathMin(MaxFont(ret[i].call), Gfx.fontSizeThreshold))
      /\ Eq(ret[i].val.fontPx, MathMin(MaxFont(ret[i].call), Gfx.fontSizeThreshold))
           <=> \/ Eq(ScaleOf(ret[i].call), I(1))
               \/ LessEq(MaxFont(ret[i].call), Gfx.fontSizeThreshold)

\* a text that fits unscaled came back larger than the reference size
C3_Witness ==
  \E i \in Returned("layoutShieldText") :
    /\ FitsUnscaled(ret[i].call)
    /\ Greater(ret[i].val.fontPx, Gfx.fontSizeThreshold)

\* the baseline before rounding, from the returned font size
UnroundedBaseline(c, fontPx) ==
  Add(Add(PadPx(c.padding.top),
          Div(Sub(AvailHeight(c), emHeightForFontSize(fontPx)), I(2))),
      emHeightForFontSize(fontPx))

\* C5 as stated: the yBaseline layoutShieldText returns is always an integer.
C5_BaselineInteger ==
  \A i \in Returned("layoutShieldText") : IsInteger(ret[i].val.yBaseline)

\* C5: the yBaseline layoutShieldText returns is an integer whenever the
\* constraint function returns a number; the scale is not a number exactly
\* when an ellipse constraint gets an available area of 0 by 0, and then
\* fontPx and yBaseline are NaN.
C5_BaselineIntegerOrNaN ==
  \A i \in Returned("layoutShieldText") :
    /\ ~IsNaN(ScaleOf(ret[i].call)) => IsInteger(ret[i].val.yBaseline)
    /\ IsNaN(ScaleOf(ret[i].call)) =>
         /\ IsNaN(ret[i].val.fontPx)
         /\ IsNaN(ret[i].val.yBaseline)
    /\ IsNaN(ScaleOf(ret[i].call)) <=>
         /\ ret[i].call.textLayoutFunc.fn \in
              {"ellipseTextConstraint", "southHalfellipseTextConstraint"}
         /\ IsZero(AvailWidth(ret[i].call))
         /\ IsZero(AvailHeight(ret[i].call))

\* a baseline that was not an integer before rounding came back as one
C5_Witness ==
  \E i \in Returned("layoutShieldText") :
    /\ ~IsNaN(ret[i].val.fontPx)
    /\ ~IsInteger(UnroundedBaseline(ret[i].call, ret[i].val.fontPx))
    /\ IsInteger(ret[i].val.yBaseline)

(***************************************************************************)
(* Properties of the constraint functions.                                 *)
(***************************************************************************)
PositiveBounds(c) ==
  /\ Positive(c.spaceBounds.width)
  /\ Positive(c.spaceBounds.height)
  /\ Positive(c.textBounds.width)
  /\ Positive(c.textBounds.height)

\* the calls of the four constraint functions that have returned
ConstraintReturned == {i \in DOMAIN ret : "spaceBounds" \in DOMAIN ret[i].call}

\* C4 as stated: for positive spaceBounds and textBounds each of the four
\* constraint functions returns a scale greater than 0, the rounded
\* rectangle for every radius >= 0.
C4_ScalePositive ==
  \A i \in ConstraintReturned :
    PositiveBounds(ret[i].call) => Positive(ret[i].val.scale)

\* what the corners of a rounded rectangle take from each dimension
CornerInset(radius) == Mul(radius, Sub(I(2), Sqrt(I(2))))

\* C4: for positive spaceBounds and textBounds the rectangle, ellipse and
\* south half ellipse constraints return a scale greater than 0; the rounded
\* rectangle does exactly when radius * (2 - sqrt(2)) is less than both the
\* width and the height of spaceBounds, which every radius up to half the
\* smaller of the two is.
C4_ScalePositiveUnlessRadiusLarge ==
  \A i \in ConstraintReturned :
    PositiveBounds(ret[i].call) =>
      IF ret[i].call.fn = "roundedRectTextConstraint"
      THEN /\ Positive(ret[i].val.scale) <=>
                /\ Less(CornerInset(ret[i].call.radius), ret[i].call.spaceBounds.width)
                /\ Less(CornerInset(ret[i].call.radius), ret[i].call.spaceBounds.height)
           /\ /\ LessEq(Mul(I(2), ret[i].call.radius), ret[i].call.spaceBounds.width)
              /\ LessEq(Mul(I(2), ret[i].call.radius), ret[i].call.spaceBounds.height)
              => Positive(ret[i].val.scale)
      ELSE Positive(ret[i].val.scale)

\* a rounded rectangle with a positive radius returned a positive scale
C4_Witness ==
  \E i \in ConstraintReturned :
    /\ PositiveBounds(ret[i].call)
    /\ ret[i].call.fn = "roundedRectTextConstraint"
    /\ Positive(ret[i].call.radius)
    /\ Positive(ret[i].val.scale)

(***************************************************************************)
(* Properties of the width estimate.                                       *)
(***************************************************************************)
AllDigits(text) ==
  \A i \in DOMAIN text : text[i] \in {"0", "1", "2", "3", "4", "5", "6", "7", "8", "9"}

AllW(text) == \A i \in DOMAIN text : text[i] = "W"

\* C9: two strings of equal length made of digits get the same width from
\* widthOfText at every font size, and the same fontPx from layoutShieldText
\* for the same padding, bounds, constraint and ceiling; a string of the
\* same positive length made of "W" gets a larger width.
C9_DigitWidth ==
  Len(ret) = 2 =>
    /\ /\ AllDigits(ret[1].call.text)
       /\ AllDigits(ret[2].call.text)
       /\ Len(ret[1].call.text) = Len(ret[2].call.text)
       => IF ret[1].call.fn = "widthOfText"
          THEN Eq(ret[1].val, ret[2].val)
          ELSE Eq(ret[1].val.fontPx, ret[2].val.fontPx)
    /\ /\ ret[1].call.fn = "widthOfText"
       /\ AllDigits(ret[1].call.text)
       /\ AllW(ret[2].call.text)
       /\ Len(ret[1].call.text) = Len(ret[2].call.text)
       /\ Len(ret[1].call.text) > 0
       => Greater(ret[2].val, ret[1].val)

\* the widths of two different strings of MaxTextLen digits have been
\* compared
C9_Witness ==
  /\ Len(ret) = 2
  /\ ret[1].call.fn = "widthOfText"
  /\ AllDigits(ret[1].call.text)
  /\ AllDigits(ret[2].call.text)
  /\ Len(ret[1].call.text) = MaxTextLen
  /\ ret[1].call.text # ret[2].call.text
  /\ ret[1].call.text[1] # ret[2].call.text[1]

(***************************************************************************)
(* The draw operations.  Each returns the context as it leaves it and the  *)
(* text drawing call it made, with the context as it was at that call.     *)
(***************************************************************************)
\* Gfx.shieldFont(size): a font specification of the given pixel size
shieldFont(size) == [k |-> "font", px |-> size]

fillText(c, text, x, y) == [op |-> "fillText", text |-> text, x |-> x, y |-> y, at |-> c]

strokeText(c, text, x, y) == [op |-> "strokeText", text |-> text, x |-> x, y |-> y, at |-> c]

drawShieldText(c, text, textLayout) ==
  LET c1 == [c EXCEPT !.textAlign = "center",
                      !.textBaseline = "alphabetic",
                      !.font = shieldFont(textLayout.fontPx)]
  IN  [ctx |-> c1,
       draw |-> fillText(c1, text, textLayout.xBaseline, textLayout.yBaseline)]

\* drawShieldHaloText without the two assignments after strokeText
MutDrawShieldHaloText(c, text, textLayout) ==
  LET c1 == [c EXCEPT !.textAlign = "center",
                      !.textBaseline = "alphabetic",
                      !.font = shieldFont(textLayout.fontPx)]
      c2 == [c1 EXCEPT !.shadowColor = c1.strokeStyle,
                       !.shadowBlur = I(0),
                       !.lineWidth = Mul(I(2), PXR)]
  IN  [ctx |-> c2,
       draw |-> strokeText(c2, text, textLayout.xBaseline, textLayout.yBaseline)]

drawShieldHaloText(c, text, textLayout) ==
  LET c1 == [c EXCEPT !.textAlign = "center",
                      !.textBaseline = "alphabetic",
                      !.font = shieldFont(textLayout.fontPx)]
      c2 == [c1 EXCEPT !.shadowColor = c1.strokeStyle,
                       !.shadowBlur = I(0),
                       !.lineWidth = Mul(I(2), PXR)]
      c3 == [c2 EXCEPT !.shadowColor = Null, !.shadowBlur = Null]
  IN  [ctx |-> c3,
       draw |-> strokeText(c2, text, textLayout.xBaseline, textLayout.yBaseline)]

\* the banner's text layout: the default layout in the banner's box
BannerLayout(c, text) ==
  layoutShieldTextFromDef(text, Null,
    [width |-> c.canvas.width,
     height |-> Sub(ShieldDef.bannerSizeH, ShieldDef.bannerPadding)])

\* drawBannerText without the assignment to fillStyle
MutFillBannerText(c, text, bannerIndex, textLayout) ==
  LET c1 == [c EXCEPT !.font = shieldFont(textLayout.fontPx),
                      !.textBaseline = "alphabetic",
                      !.textAlign = "center"]
  IN  [ctx |-> c1,
       draw |-> fillText(c1, text, textLayout.xBaseline,
                         Add(Sub(Add(textLayout.yBaseline,
                                     Mul(bannerIndex, ShieldDef.bannerSizeH)),
                                 ShieldDef.bannerPadding),
                             ShieldDef.topPadding))]

\* drawBannerText drawing every index where index 0 goes
MutBannerIndexIgnored(c, text, bannerIndex, textLayout) ==
  LET c1 == [c EXCEPT !.fillStyle = Str("black"),
                      !.font = shieldFont(textLayout.fontPx),
                      !.textBaseline = "alphabetic",
                      !.textAlign = "center"]
  IN  [ctx |-> c1,
       draw |-> fillText(c1, text, textLayout.xBaseline,
                         Add(Sub(textLayout.yBaseline, ShieldDef.bannerPadding),
                             ShieldDef.topPadding))]

\* drawBannerText, the statements after textLayout is computed
FillBannerText(c, text, bannerIndex, textLayout) ==
  LET c1 == [c EXCEPT !.fillStyle = Str("black"),
                      !.font = shieldFont(textLayout.fontPx),
                      !.textBaseline = "alphabetic",
                      !.textAlign = "center"]
  IN  [ctx |-> c1,
       draw |-> fillText(c1, text, textLayout.xBaseline,
                         Add(Sub(Add(textLayout.yBaseline,
                                     Mul(bannerIndex, ShieldDef.bannerSizeH)),
                                 ShieldDef.bannerPadding),
                             ShieldDef.topPadding))]

drawBannerText(c, text, bannerIndex) ==
  FillBannerText(c, text, bannerIndex, BannerLayout(c, text))

\* drawBannerHaloText subtracting bannerIndex * bannerSizeH
MutStrokeBannerText(c, text, bannerIndex, textLayout) ==
  LET c1 == [c EXCEPT !.shadowColor = Color.backgroundFill]
      c2 == [c1 EXCEPT !.strokeStyle = c1.shadowColor,
                       !.font = shieldFont(textLayout.fontPx),
                       !.textBaseline = "alphabetic",
                       !.textAlign = "center",
                       !.shadowBlur = I(0),
                       !.lineWidth = Mul(I(2), PXR)]
      c3 == [c2 EXCEPT !.shadowColor = Null, !.shadowBlur = Null]
  IN  [ctx |-> c3,
       draw |-> strokeText(c2, text, textLayout.xBaseline,
                           Add(Sub(Sub(textLayout.yBaseline,
                                       Mul(bannerIndex, ShieldDef.bannerSizeH)),
                                   ShieldDef.bannerPadding),
                               ShieldDef.topPadding))]

\* drawBannerHaloText, the statements after textLayout is computed
StrokeBannerText(c, text, bannerIndex, textLayout) ==
  LET c1 == [c EXCEPT !.shadowColor = Color.backgroundFill]
      c2 == [c1 EXCEPT !.strokeStyle = c1.shadowColor,
                       !.font = shieldFont(textLayout.fontPx),
                       !.textBaseline = "alphabetic",
                       !.textAlign = "center",
                       !.shadowBlur = I(0),
                       !.lineWidth = Mul(I(2), PXR)]
      c3 == [c2 EXCEPT !.shadowColor = Null, !.shadowBlur = Null]
  IN  [ctx |-> c3,
       draw |-> strokeText(c2, text, textLayout.xBaseline,
                           Add(Sub(Add(textLayout.yBaseline,
                                       Mul(bannerIndex, ShieldDef.bannerSizeH)),
                                   ShieldDef.bannerPadding),
                               ShieldDef.topPadding))]

drawBannerHaloText(c, text, bannerIndex) ==
  StrokeBannerText(c, text, bannerIndex, BannerLayout(c, text))

(***************************************************************************)
(* The draw operations as actions on one context.  log keeps, for every    *)
(* text drawing call, the operation that made it, its arguments, the       *)
(* context before and after the operation.                                 *)
(***************************************************************************)
MaxDraws == 2

MaxBannerIndex == 2

ShieldTexts == {<<"9", "5">>}

BannerTexts == {<<"A", "L", "T">>}

CallerColors == {Str("white")}

CanvasWidths == {I(20)}

CanvasHeight == I(20)

\* the pixel ratios and banner geometries the texts are drawn under
DrawEnvs ==
  {<<[pixelRatio |-> I(1), fontSizeThreshold |-> I(12)],
     [bannerSizeH |-> I(9), bannerPadding |-> I(1), topPadding |-> I(1)]>>,
   <<[pixelRatio |-> I(2), fontSizeThreshold |-> I(12)],
     [bannerSizeH |-> I(8), bannerPadding |-> I(2), topPadding |-> I(0)]>>}

InitDraw ==
  /\ \E env \in DrawEnvs : Gfx = env[1] /\ ShieldDef = env[2]
  /\ ctx \in {NewContext(w) : w \in CanvasWidths}
  /\ log = <<>>
  /\ calls = <<>>
  /\ ret = <<>>

\* an operation returns: the context is as the operation left it
Drawn(fn, text, arg, res) ==
  /\ ctx' = res.ctx
  /\ log' = Append(log, [call |-> fn, text |-> text, arg |-> arg, draw |-> res.draw,
                         pre |-> ctx, post |-> res.ctx])
  /\ UNCHANGED <<Gfx, ShieldDef, calls, ret>>

\* the caller sets the text color on the context before the texts are drawn
SetFillStyle ==
  \E color \in CallerColors :
    /\ log = <<>>
    /\ ctx' = [ctx EXCEPT !.fillStyle = color]
    /\ UNCHANGED <<Gfx, ShieldDef, log, calls, ret>>

\* the caller sets the halo color on the context before the texts are drawn
SetStrokeStyle ==
  \E color \in CallerColors :
    /\ log = <<>>
    /\ ctx' = [ctx EXCEPT !.strokeStyle = color]
    /\ UNCHANGED <<Gfx, ShieldDef, log, calls, ret>>

\* the layouts the caller may have computed for the text of a badge
BadgeLayouts(text) ==
  {layoutShieldTextFromDef(text, Null, [width |-> ctx.canvas.width, height |-> CanvasHeight])}

DrawShieldText ==
  /\ Len(log) < MaxDraws
  /\ \E text \in ShieldTexts :
       \E textLayout \in BadgeLayouts(text) :
         Drawn("drawShieldText", text, textLayout, drawShieldText(ctx, text, textLayout))

DrawShieldHaloText ==
  /\ Len(log) < MaxDraws
  /\ \E text \in ShieldTexts :
       \E textLayout \in BadgeLayouts(text) :
         Drawn("drawShieldHaloText", text, textLayout,
               drawShieldHaloText(ctx, text, textLayout))

DrawBannerText ==
  /\ Len(log) < MaxDraws
  /\ \E text \in BannerTexts :
       \E bannerIndex \in 0..MaxBannerIndex :
         \E res \in {drawBannerText(ctx, text, I(bannerIndex))} :
           Drawn("drawBannerText", text, I(bannerIndex), res)

DrawBannerHaloText ==
  /\ Len(log) < MaxDraws
  /\ \E text \in BannerTexts :
       \E bannerIndex \in 0..MaxBannerIndex :
         \E res \in {drawBannerHaloText(ctx, text, I(bannerIndex))} :
           Drawn("drawBannerHaloText", text, I(bannerIndex), res)

NextDraw ==
  \/ SetFillStyle
  \/ SetStrokeStyle
  \/ DrawShieldText
  \/ DrawShieldHaloText
  \/ DrawBannerText
  \/ DrawBannerHaloText

SpecDraw == InitDraw /\ [][NextDraw]_vars

(***************************************************************************)
(* Properties of the draw operations.                                      *)
(***************************************************************************)
Banners == {i \in DOMAIN log : log[i].call \in {"drawBannerText", "drawBannerHaloText"}}

Halos == {i \in DOMAIN log : log[i].call \in {"drawShieldHaloText", "drawBannerHaloText"}}

\* the layout a banner operation is to draw its text with
LayoutOfBanner(e) == BannerLayout(e.pre, e.text)

\* yBaseline + n * bannerSizeH - bannerPadding + topPadding
BannerY(layout, n) ==
  Add(layout.yBaseline,
      Add(Mul(n, ShieldDef.bannerSizeH),
          Sub(ShieldDef.topPadding, ShieldDef.bannerPadding)))

\* C6: drawBannerText and drawBannerHaloText draw text at x = xBaseline and
\* y = yBaseline + n * bannerSizeH - bannerPadding + topPadding of the
\* default layout in a box of the canvas width and bannerSizeH -
\* bannerPadding high; index 0 is -bannerPadding + topPadding off the layout
\* baseline, the next index of the same text is one bannerSizeH further, and
\* the halo and the fill of the same banner are drawn at the same position.
C6_BannerPosition ==
  /\ \A i \in Banners :
       \A layout \in {LayoutOfBanner(log[i])} :
         /\ log[i].draw.text = log[i].text
         /\ Eq(log[i].draw.x, layout.xBaseline)
         /\ Eq(log[i].draw.y, BannerY(layout, log[i].arg))
         /\ log[i].arg = I(0) =>
              Eq(Sub(log[i].draw.y, layout.yBaseline),
                 Sub(ShieldDef.topPadding, ShieldDef.bannerPadding))
  /\ \A i, j \in Banners :
       log[i].text = log[j].text =>
         /\ log[j].arg = Add(log[i].arg, I(1)) =>
              Eq(Sub(log[j].draw.y, log[i].draw.y), ShieldDef.bannerSizeH)
         /\ log[j].arg = log[i].arg =>
              /\ Eq(log[j].draw.x, log[i].draw.x)
              /\ Eq(log[j].draw.y, log[i].draw.y)

\* the fill and the halo of the banner at index 1 have both been drawn
C6_Witness ==
  \E i, j \in Banners :
    /\ log[i].call = "drawBannerText"
    /\ log[j].call = "drawBannerHaloText"
    /\ log[i].text = log[j].text
    /\ log[i].arg = I(1)
    /\ log[j].arg = I(1)
    /\ log[i].draw.op = "fillText"
    /\ log[j].draw.op = "strokeText"

\* two banners of the same text, the second at the higher index
BannerPairs ==
  {p \in Banners \X Banners :
     /\ log[p[1]].text = log[p[2]].text
     /\ Less(log[p[1]].arg, log[p[2]].arg)}

\* C7 as stated: of two banner indices i < j, the text for index j is drawn
\* above the text for index i, at a smaller canvas y.
C7_HigherIndexAbove ==
  \A p \in BannerPairs : Less(log[p[2]].draw.y, log[p[1]].draw.y)

\* C7: of two banner indices i < j, the text for index j is drawn below the
\* text for index i, at a canvas y larger by (j - i) * bannerSizeH; index 0
\* is the topmost banner and has the smallest y.
C7_HigherIndexBelow ==
  /\ \A p \in BannerPairs :
       /\ Greater(log[p[2]].draw.y, log[p[1]].draw.y)
       /\ Eq(Sub(log[p[2]].draw.y, log[p[1]].draw.y),
             Mul(Sub(log[p[2]].arg, log[p[1]].arg), ShieldDef.bannerSizeH))
  /\ \A i, j \in Banners :
       log[i].text = log[j].text /\ log[i].arg = I(0) =>
         LessEq(log[i].draw.y, log[j].draw.y)

\* the banners at index 0 and at index MaxBannerIndex have both been drawn,
\* the higher index first
C7_Witness ==
  \E p \in BannerPairs :
    /\ p[2] < p[1]
    /\ log[p[1]].arg = I(0)
    /\ log[p[2]].arg = I(MaxBannerIndex)
    /\ log[p[1]].call = "drawBannerText"
    /\ log[p[2]].call = "drawBannerText"

C10_StyleFrame ==
  /\ \A i \in DOMAIN log :
       /\ log[i].call \in {"drawShieldText", "drawShieldHaloText"} =>
            /\ log[i].post.fillStyle = log[i].pre.fillStyle
            /\ log[i].post.strokeStyle = log[i].pre.strokeStyle
            /\ log[i].draw.at.fillStyle = log[i].pre.fillStyle
            /\ log[i].draw.at.strokeStyle = log[i].pre.strokeStyle
       /\ log[i].call = "drawBannerText" =>
            /\ log[i].draw.at.fillStyle = Str("black")
            /\ log[i].post.fillStyle = Str("black")
       /\ log[i].call = "drawBannerHaloText" =>
            /\ log[i].draw.at.strokeStyle = Color.backgroundFill
            /\ log[i].post.strokeStyle = Color.backgroundFill
  /\ \A i \in DOMAIN log :
       /\ i + 1 \in DOMAIN log
       /\ log[i].call = "drawBannerText"
       /\ log[i + 1].call = "drawShieldText"
       => log[i + 1].draw.at.fillStyle = Str("black")
  /\ log # <<>> =>
       /\ ctx = log[Len(log)].post
       /\ log[Len(log)].call = "drawBannerText" => ctx.fillStyle = Str("black")
       /\ log[Len(log)].call = "drawBannerHaloText" =>
            ctx.strokeStyle = Color.backgroundFill

\* the caller set a fill color, a banner was drawn, and the badge text
\* after it was drawn in black
C10_Witness ==
  /\ Len(log) >= 2
  /\ log[1].pre.fillStyle \in CallerColors
  /\ log[1].call = "drawBannerText"
  /\ log[2].call = "drawShieldText"
  /\ log[2].draw.at.fillStyle = Str("black")

====
